---- MODULE Spec2Model ----
(***************************************************************************)
(* CameraSource (media/libstagefright/CameraSource.cpp): the frame         *)
(* hand-off between the camera callback thread, the consumer (encoder)     *)
(* and the thread that drives start()/stop().                              *)
(*                                                                         *)
(* Threads of the model:                                                   *)
(*   ctl  the caller of start() and then stop()                            *)
(*   cb   the camera's callback thread (dataCallbackTimestamp)             *)
(*   rd   the consumer thread that calls read()                            *)
(*   cp   the thread on which the consumer releases a MediaBuffer, which   *)
(*        calls signalBufferReturned()                                     *)
(*                                                                         *)
(* Code that runs with mLock held from its first to its last statement     *)
(* and never waits (dataCallbackTimestamp, one pass of read()) is one      *)
(* step.  stop() holds mLock over several calls and a wait, and            *)
(* signalBufferReturned() and the last statement of start() hold no lock   *)
(* at all: they are modelled statement by statement, so that the other     *)
(* threads interleave with them.  Each statement on a shared field is      *)
(* taken to be indivisible.                                                *)
(*                                                                         *)
(* A frame is named by the number of its callback (1, 2, ...): the camera  *)
(* never has the same buffer outstanding twice, so this is                 *)
(* IMemory::pointer(), the identity signalBufferReturned() matches on.     *)
(***************************************************************************)
EXTENDS Integers, Sequences, FiniteSets, TLC

\* ---------------------------------------------------------------- bounds
\* number of frames the camera delivers in one run
MaxFrames == 3

\* capture timestamps (us) the camera stamps frames with, and the start
\* times (us) a caller passes in kKeyTime; 0 is "no start time"
CaptureTimes == {80, 120, 130}
StartTimes == {0, 100}

\* preview frame rates the camera reports to the constructor
FrameRates == {4, 30}

\* a buffer address that was never handed out by read()
ForeignBuffer == MaxFrames + 1

\* ------------------------------------------------------------- variables
VARIABLES
    mStarted,                   \* bool mStarted
    mStartTimeUs,               \* int64_t mStartTimeUs
    mFirstFrameTimeUs,          \* int64_t mFirstFrameTimeUs
    mLastFrameTimestampUs,      \* int64_t mLastFrameTimestampUs
    mNumFramesReceived,         \* int32_t counters
    mNumFramesEncoded,
    mNumFramesDropped,
    mNumGlitches,
    mGlitchDurationThresholdUs, \* int64_t, fixed by the constructor
    mFramesReceived,            \* List<sp<IMemory> >: the pending queue
    mFrameTimes,                \* List<int64_t>: its presentation timestamps
    mFramesBeingEncoded,        \* List<sp<IMemory> >: the in-flight list
    mCamera,                    \* sp<Camera>: "camera" or "NULL"
    mLock,                      \* Mutex mLock: "free" or "stop"
    recording,                  \* the camera is between startRecording and stopRecording
    listener,                   \* the camera has a CameraSourceListener set
    released,                   \* frame -> number of releaseRecordingFrame calls
    ctl,                        \* position of the start()/stop() caller
    startTimeReq,               \* the kKeyTime value start() was given
    cb,                         \* callback thread: [pc, frame, ts, skip]
    rd,                         \* reader thread: [pc, result]
    cp,                         \* completion thread: [pc, buf]
    cbLog,                      \* per processed callback: [ts, outcome, time]
    delivered,                  \* frames read() handed out: [frame, time]
    crashed                     \* "none", "abort" (CHECK failed), "segv"

vars == <<mStarted, mStartTimeUs, mFirstFrameTimeUs, mLastFrameTimestampUs,
          mNumFramesReceived, mNumFramesEncoded, mNumFramesDropped,
          mNumGlitches, mGlitchDurationThresholdUs, mFramesReceived,
          mFrameTimes, mFramesBeingEncoded, mCamera, mLock, recording,
          listener, released, ctl, startTimeReq, cb, rd, cp, cbLog,
          delivered, crashed>>

clockVars == <<mStartTimeUs, mFirstFrameTimeUs, mLastFrameTimestampUs>>
counterVars == <<mNumFramesReceived, mNumFramesEncoded, mNumFramesDropped,
                 mNumGlitches>>
queueVars == <<mFramesReceived, mFrameTimes>>
cameraVars == <<mCamera, recording, listener>>
threadVars == <<ctl, startTimeReq, cb, rd, cp>>

Frames == 1..MaxFrames

\* ---------------------------------------------------------------- helpers
RECURSIVE SeqToSet(_)
SeqToSet(s) == IF s = <<>> THEN {} ELSE {Head(s)} \cup SeqToSet(Tail(s))

\* erase(begin()) in place of erase(it)
EraseFront(s, b) == Tail(s)

\* List::erase of the first node whose pointer() is b
RECURSIVE EraseFirst(_, _)
EraseFirst(s, b) ==
    IF s = <<>> THEN <<>>
    ELSE IF Head(s) = b THEN Tail(s)
    ELSE <<Head(s)>> \o EraseFirst(Tail(s), b)

\* the default glitch threshold, 200 ms
DefaultGlitchDurationThresholdUs == 200000

\* the constructor's threshold: the default, raised to one frame interval
GlitchThreshold(frameRate) ==
    LET glitchDurationUs == 1000000 \div frameRate
    IN  IF glitchDurationUs > DefaultGlitchDurationThresholdUs
        THEN glitchDurationUs
        ELSE DefaultGlitchDurationThresholdUs

\* Condition::signal on mFrameAvailableCondition: wakes read() if it waits
SignalFrameAvailable(r) ==
    IF r.pc = "wait" THEN [r EXCEPT !.pc = "woken"] ELSE r

\* Condition::signal on mFrameCompleteCondition: wakes stop() if it waits,
\* and is lost otherwise
SignalFrameComplete(c) ==
    IF c = "stop_wait" THEN "stop_woken" ELSE c

\* ------------------------------------------------------------------- Init
Init ==
    /\ mStarted = FALSE
    /\ mStartTimeUs = 0     \* no initialiser; start() writes it before any read
    /\ mFirstFrameTimeUs = 0
    /\ mLastFrameTimestampUs = 0
    /\ mNumFramesReceived = 0
    /\ mNumFramesEncoded = 0
    /\ mNumFramesDropped = 0
    /\ mNumGlitches = 0
    /\ \E fr \in FrameRates : mGlitchDurationThresholdUs = GlitchThreshold(fr)
    /\ mFramesReceived = <<>>
    /\ mFrameTimes = <<>>
    /\ mFramesBeingEncoded = <<>>
    /\ mCamera = "camera"
    /\ mLock = "free"
    /\ recording = FALSE
    /\ listener = FALSE
    /\ released = [f \in Frames |-> 0]
    /\ ctl = "idle"
    /\ startTimeReq = 0
    /\ cb = [pc |-> "idle", frame |-> 0, ts |-> 0, skip |-> FALSE]
    /\ rd = [pc |-> "idle", result |-> "none"]
    /\ cp = [pc |-> "idle", buf |-> 0]
    /\ cbLog = <<>>
    /\ delivered = <<>>
    /\ crashed = "none"

Alive == crashed = "none"

\* ---------------------------------------------------------------- start()
\* lines 182-197: CHECK(!mStarted), mStartTimeUs from kKeyTime, setListener
StartBegin(t) ==
    /\ Alive /\ ctl = "idle"
    /\ IF mStarted
       THEN /\ crashed' = "abort"
            /\ UNCHANGED <<mStartTimeUs, startTimeReq, listener, ctl>>
       ELSE /\ mStartTimeUs' = t
            /\ startTimeReq' = t
            /\ listener' = TRUE
            /\ ctl' = "start_rec"
            /\ UNCHANGED crashed
    /\ UNCHANGED <<mStarted, mFirstFrameTimeUs, mLastFrameTimestampUs,
                   counterVars, mGlitchDurationThresholdUs, queueVars,
                   mFramesBeingEncoded, mCamera, mLock, recording, released,
                   cb, rd, cp, cbLog, delivered>>

\* line 198, startCameraRecording: CHECK_EQ(OK, mCamera->startRecording())
StartCameraRecording(ok) ==
    /\ Alive /\ ctl = "start_rec"
    /\ IF ok
       THEN recording' = TRUE /\ ctl' = "start_flag" /\ UNCHANGED crashed
       ELSE crashed' = "abort" /\ UNCHANGED <<recording, ctl>>
    /\ UNCHANGED <<mStarted, clockVars, counterVars,
                   mGlitchDurationThresholdUs, queueVars, mFramesBeingEncoded,
                   mCamera, mLock, listener, released, startTimeReq, cb, rd,
                   cp, cbLog, delivered>>

\* line 201: mStarted = true, written without mLock
StartSetFlag ==
    /\ Alive /\ ctl = "start_flag"
    /\ mStarted' = TRUE
    /\ ctl' = "running"
    /\ UNCHANGED <<clockVars, counterVars, mGlitchDurationThresholdUs,
                   queueVars, mFramesBeingEncoded, cameraVars, mLock,
                   released, startTimeReq, cb, rd, cp, cbLog, delivered,
                   crashed>>

\* ------------------------------------------------- dataCallbackTimestamp
\* CameraSource::releaseRecordingFrame: mCamera->releaseRecordingFrame(frame)
releaseRecordingFrame(rel, f) == [rel EXCEPT ![f] = @ + 1]

\* the test without mNumFramesReceived > 0
IsGlitchAnyFrame(received, ts, last, threshold) ==
    ts - last > threshold

\* lines 327-328: the test for a long delay between two frames
IsGlitch(received, ts, last, threshold) ==
    received > 0 /\ ts - last > threshold

\* lines 346-347: the frame was captured before the requested start time
BeforeStartTime(ts, startTimeUs) ==
    startTimeUs > 0 /\ ts < startTimeUs

\* the first frame at or after the start time starts the clock at 0
InitialDelayZero(ts, startTimeUs) ==
    IF startTimeUs > 0 THEN 0 ELSE startTimeUs

\* line 353: the initial delay that replaces the start time
InitialDelay(ts, startTimeUs) ==
    IF startTimeUs > 0 THEN ts - startTimeUs ELSE startTimeUs

\* the difference taken the wrong way round
PresentationTimeReversed(startTimeUs, ts, firstFrameTimeUs) ==
    startTimeUs + (firstFrameTimeUs - ts)

\* line 359: timeUs = mStartTimeUs + (timestampUs - mFirstFrameTimeUs)
PresentationTime(startTimeUs, ts, firstFrameTimeUs) ==
    startTimeUs + (ts - firstFrameTimeUs)

\* skipCurrentFrame(timestampUs): the hook a subclass overrides; what it
\* answers for this frame is an input of the callback
skipCurrentFrame(c) == c.skip

LastCaptureTime == IF cbLog = <<>> THEN 0 ELSE cbLog[Len(cbLog)].ts

\* The camera invokes the listener with its next frame: it does so only
\* while it records and a listener is set, with timestamps that never go
\* back.  The callback then has to take mLock.
CbDispatch(ts, skip) ==
    /\ Alive /\ cb.pc = "idle"
    /\ recording /\ listener
    /\ Len(cbLog) < MaxFrames
    /\ ts >= LastCaptureTime
    /\ cb' = [pc |-> "dispatched", frame |-> Len(cbLog) + 1, ts |-> ts,
              skip |-> skip]
    /\ UNCHANGED <<mStarted, clockVars, counterVars,
                   mGlitchDurationThresholdUs, queueVars, mFramesBeingEncoded,
                   cameraVars, mLock, released, ctl, startTimeReq, rd, cp,
                   cbLog, delivered, crashed>>

CbLogEntry(outcome, time) ==
    Append(cbLog, [ts |-> cb.ts, outcome |-> outcome, time |-> time])

CbReturn == cb' = [cb EXCEPT !.pc = "idle"]

\* lines 320-325: not started, the frame is released and counted as dropped
CbNotStarted ==
    /\ released' = releaseRecordingFrame(released, cb.frame)
    /\ mNumFramesReceived' = mNumFramesReceived + 1
    /\ mNumFramesDropped' = mNumFramesDropped + 1
    /\ cbLog' = CbLogEntry("notstarted", 0)
    /\ CbReturn
    /\ UNCHANGED <<clockVars, mNumFramesEncoded, mNumGlitches, queueVars,
                   rd, crashed>>

\* lines 327-333: the glitch counter after this frame
GlitchesAfter ==
    IF IsGlitch(mNumFramesReceived, cb.ts, mLastFrameTimestampUs,
                mGlitchDurationThresholdUs)
    THEN mNumGlitches + 1
    ELSE mNumGlitches

\* the skipped frame counted as received
CbSkipCounted ==
    /\ mNumGlitches' = GlitchesAfter
    /\ mNumFramesReceived' = mNumFramesReceived + 1
    /\ released' = releaseRecordingFrame(released, cb.frame)
    /\ cbLog' = CbLogEntry("skipped", 0)
    /\ CbReturn
    /\ UNCHANGED <<clockVars, mNumFramesEncoded, mNumFramesDropped,
                   queueVars, rd, crashed>>

\* lines 337-340: the hook asks to skip the frame
CbSkip ==
    /\ mNumGlitches' = GlitchesAfter
    /\ released' = releaseRecordingFrame(released, cb.frame)
    /\ cbLog' = CbLogEntry("skipped", 0)
    /\ CbReturn
    /\ UNCHANGED <<clockVars, mNumFramesReceived, mNumFramesEncoded,
                   mNumFramesDropped, queueVars, rd, crashed>>

\* lines 342-352: first frame, captured before the start time
CbEarly ==
    /\ mNumGlitches' = GlitchesAfter
    /\ mLastFrameTimestampUs' = cb.ts
    /\ mFirstFrameTimeUs' = cb.ts
    /\ released' = releaseRecordingFrame(released, cb.frame)
    /\ cbLog' = CbLogEntry("early", 0)
    /\ CbReturn
    /\ UNCHANGED <<mStartTimeUs, mNumFramesReceived, mNumFramesEncoded,
                   mNumFramesDropped, queueVars, rd, crashed>>

\* lines 342-363: the frame is queued with its presentation timestamp
CbAccept ==
    LET first == mNumFramesReceived = 0
        firstUs == IF first THEN cb.ts ELSE mFirstFrameTimeUs
        startUs == IF first THEN InitialDelay(cb.ts, mStartTimeUs)
                   ELSE mStartTimeUs
        timeUs == PresentationTime(startUs, cb.ts, firstUs)
    IN  /\ mNumGlitches' = GlitchesAfter
        /\ mLastFrameTimestampUs' = cb.ts
        /\ mFirstFrameTimeUs' = firstUs
        /\ mStartTimeUs' = startUs
        /\ mNumFramesReceived' = mNumFramesReceived + 1
        /\ mFramesReceived' = Append(mFramesReceived, cb.frame)
        /\ mFrameTimes' = Append(mFrameTimes, timeUs)
        /\ rd' = SignalFrameAvailable(rd)
        /\ cbLog' = CbLogEntry("queued", timeUs)
        /\ CbReturn
        /\ UNCHANGED <<mNumFramesEncoded, mNumFramesDropped, released,
                       crashed>>

\* mCamera->releaseRecordingFrame() through a NULL mCamera
CbNullCamera ==
    /\ crashed' = "segv"
    /\ cb' = [cb EXCEPT !.pc = "crashed"]
    /\ UNCHANGED <<clockVars, counterVars, queueVars, released, rd, cbLog>>

\* The whole callback, lines 316-364, under mLock.
dataCallbackTimestamp ==
    /\ Alive /\ cb.pc = "dispatched"
    /\ mLock = "free"
    /\ IF ~mStarted
       THEN IF mCamera = "NULL" THEN CbNullCamera ELSE CbNotStarted
       ELSE IF skipCurrentFrame(cb)
            THEN CbSkip
            ELSE IF mNumFramesReceived = 0
                    /\ BeforeStartTime(cb.ts, mStartTimeUs)
                 THEN CbEarly
                 ELSE CbAccept
    /\ UNCHANGED <<mStarted, mGlitchDurationThresholdUs, mFramesBeingEncoded,
                   cameraVars, mLock, ctl, startTimeReq, cp, delivered>>

\* ----------------------------------------------------------------- read()
\* lines 284-288: a seek is refused before the lock is taken
ReadSeek ==
    /\ Alive /\ rd.pc = "idle"
    /\ rd' = [rd EXCEPT !.result = "unsupported"]
    /\ UNCHANGED <<mStarted, clockVars, counterVars,
                   mGlitchDurationThresholdUs, queueVars, mFramesBeingEncoded,
                   cameraVars, mLock, released, ctl, startTimeReq, cb, cp,
                   cbLog, delivered, crashed>>

\* read() that takes the newest frame, *--mFramesReceived.end()
BackFrame(frames) == frames[Len(frames)]

\* lines 301-305: the front of the queue and its timestamp
FrontFrame(frames) == Head(frames)
FrontTime(times) == Head(times)

\* lines 293-312: one pass under mLock, from the call or from a wake-up:
\* wait while started and empty, end of stream when not started,
\* otherwise hand the oldest frame out
read ==
    /\ Alive /\ rd.pc \in {"idle", "woken"}
    /\ mLock = "free"
    /\ IF mStarted /\ mFramesReceived = <<>>
       THEN /\ rd' = [rd EXCEPT !.pc = "wait"]
            /\ UNCHANGED <<queueVars, mFramesBeingEncoded, delivered>>
       ELSE IF ~mStarted
       THEN /\ rd' = [pc |-> "idle", result |-> "eos"]
            /\ UNCHANGED <<queueVars, mFramesBeingEncoded, delivered>>
       ELSE /\ mFramesReceived' = Tail(mFramesReceived)
            /\ mFrameTimes' = Tail(mFrameTimes)
            /\ mFramesBeingEncoded' =
                   Append(mFramesBeingEncoded, FrontFrame(mFramesReceived))
            /\ delivered' =
                   Append(delivered, [frame |-> FrontFrame(mFramesReceived),
                                      time |-> FrontTime(mFrameTimes)])
            /\ rd' = [pc |-> "idle", result |-> "buffer"]
    /\ UNCHANGED <<mStarted, clockVars, counterVars,
                   mGlitchDurationThresholdUs, cameraVars, mLock, released,
                   ctl, startTimeReq, cb, cp, cbLog, crashed>>

\* ----------------------------------------------------------------- stop()
\* stop() that forgets mStarted = false
StopBeginKeepsFlag ==
    /\ Alive /\ ctl = "running"
    /\ mLock = "free"
    /\ mLock' = "stop"
    /\ rd' = SignalFrameAvailable(rd)
    /\ ctl' = "stop_camera"
    /\ UNCHANGED <<mStarted, clockVars, counterVars,
                   mGlitchDurationThresholdUs, queueVars, mFramesBeingEncoded,
                   cameraVars, released, startTimeReq, cb, cp, cbLog,
                   delivered, crashed>>

\* lines 211-213: take mLock, clear mStarted, signal mFrameAvailableCondition
StopBegin ==
    /\ Alive /\ ctl = "running"
    /\ mLock = "free"
    /\ mLock' = "stop"
    /\ mStarted' = FALSE
    /\ rd' = SignalFrameAvailable(rd)
    /\ ctl' = "stop_camera"
    /\ UNCHANGED <<clockVars, counterVars, mGlitchDurationThresholdUs,
                   queueVars, mFramesBeingEncoded, cameraVars, released,
                   startTimeReq, cb, cp, cbLog, delivered, crashed>>

\* lines 216-217: setListener(NULL) and stopCameraRecording()
StopCamera ==
    /\ Alive /\ ctl = "stop_camera"
    /\ listener' = FALSE
    /\ recording' = FALSE
    /\ ctl' = "stop_release"
    /\ UNCHANGED <<mStarted, clockVars, counterVars,
                   mGlitchDurationThresholdUs, queueVars, mFramesBeingEncoded,
                   mCamera, mLock, released, startTimeReq, cb, rd, cp, cbLog,
                   delivered, crashed>>

\* releaseQueuedFrames, lines 241-249: every frame of mFramesReceived is
\* released, erased and counted as dropped; mFrameTimes is left as it is
\* releaseQueuedFrames that erases the frames without releasing them
releaseQueuedFramesLeak(frames, rel) == rel

RECURSIVE releaseQueuedFrames(_, _)
releaseQueuedFrames(frames, rel) ==
    IF frames = <<>> THEN rel
    ELSE releaseQueuedFrames(Tail(frames),
                             releaseRecordingFrame(rel, Head(frames)))

\* line 218
StopReleaseQueued ==
    /\ Alive /\ ctl = "stop_release"
    /\ released' = releaseQueuedFrames(mFramesReceived, released)
    /\ mNumFramesDropped' = mNumFramesDropped + Len(mFramesReceived)
    /\ mFramesReceived' = <<>>
    /\ ctl' = "stop_test"
    /\ UNCHANGED <<mStarted, clockVars, mNumFramesReceived,
                   mNumFramesEncoded, mNumGlitches,
                   mGlitchDurationThresholdUs, mFrameTimes,
                   mFramesBeingEncoded, cameraVars, mLock, startTimeReq, cb,
                   rd, cp, cbLog, delivered, crashed>>

\* the loop test with an off-by-one: the last frame is not waited for
MustWaitForFramesButLast(inflight) == Len(inflight) > 1

\* line 219: the loop test, !mFramesBeingEncoded.empty()
MustWaitForFrames(inflight) == inflight # <<>>

StopTest ==
    /\ Alive /\ ctl = "stop_test"
    /\ ctl' = IF MustWaitForFrames(mFramesBeingEncoded)
              THEN "stop_before_wait"
              ELSE "stop_clear"
    /\ UNCHANGED <<mStarted, clockVars, counterVars,
                   mGlitchDurationThresholdUs, queueVars, mFramesBeingEncoded,
                   cameraVars, mLock, released, startTimeReq, cb, rd, cp,
                   cbLog, delivered, crashed>>

\* line 222: mFrameCompleteCondition.wait(mLock) gives up mLock and sleeps
StopWait ==
    /\ Alive /\ ctl = "stop_before_wait"
    /\ ctl' = "stop_wait"
    /\ mLock' = "free"
    /\ UNCHANGED <<mStarted, clockVars, counterVars,
                   mGlitchDurationThresholdUs, queueVars, mFramesBeingEncoded,
                   cameraVars, released, startTimeReq, cb, rd, cp, cbLog,
                   delivered, crashed>>

\* line 222: woken, wait() takes mLock again and the loop tests again
StopWake ==
    /\ Alive /\ ctl = "stop_woken"
    /\ mLock = "free"
    /\ mLock' = "stop"
    /\ ctl' = "stop_test"
    /\ UNCHANGED <<mStarted, clockVars, counterVars,
                   mGlitchDurationThresholdUs, queueVars, mFramesBeingEncoded,
                   cameraVars, released, startTimeReq, cb, rd, cp, cbLog,
                   delivered, crashed>>

\* line 224: mCamera = NULL
StopClearCamera ==
    /\ Alive /\ ctl = "stop_clear"
    /\ mCamera' = "NULL"
    /\ ctl' = "stop_check"
    /\ UNCHANGED <<mStarted, clockVars, counterVars,
                   mGlitchDurationThresholdUs, queueVars, mFramesBeingEncoded,
                   recording, listener, mLock, released, startTimeReq, cb, rd,
                   cp, cbLog, delivered, crashed>>

\* line 233: CHECK_EQ(mNumFramesReceived, mNumFramesEncoded + mNumFramesDropped)
StopCheckHolds ==
    mNumFramesReceived = mNumFramesEncoded + mNumFramesDropped

\* lines 233-235: the check, then return OK, which gives up mLock
StopCheck ==
    /\ Alive /\ ctl = "stop_check"
    /\ IF StopCheckHolds
       THEN ctl' = "done" /\ mLock' = "free" /\ UNCHANGED crashed
       ELSE crashed' = "abort" /\ UNCHANGED <<ctl, mLock>>
    /\ UNCHANGED <<mStarted, clockVars, counterVars,
                   mGlitchDurationThresholdUs, queueVars, mFramesBeingEncoded,
                   cameraVars, released, startTimeReq, cb, rd, cp, cbLog,
                   delivered>>

\* ------------------------------------------------- signalBufferReturned()
\* The function takes no lock.  lines 263-265 and 275: the search of
\* mFramesBeingEncoded for the buffer; CHECK_EQ(0, "bogus buffer") if it is
\* not there
InFlight(inflight, b) == b \in SeqToSet(inflight)

\* the buffers a consumer can pass in: those read() gave it, or a foreign one
ConsumerBuffers == {delivered[i].frame : i \in 1..Len(delivered)}
                       \cup {ForeignBuffer}

SbrFind(b) ==
    /\ Alive /\ cp.pc = "idle"
    /\ b \in ConsumerBuffers
    /\ IF InFlight(mFramesBeingEncoded, b)
       THEN cp' = [pc |-> "release", buf |-> b] /\ UNCHANGED crashed
       ELSE crashed' = "abort" /\ cp' = [pc |-> "crashed", buf |-> b]
    /\ UNCHANGED <<mStarted, clockVars, counterVars,
                   mGlitchDurationThresholdUs, queueVars, mFramesBeingEncoded,
                   cameraVars, mLock, released, ctl, startTimeReq, cb, rd,
                   cbLog, delivered>>

\* line 266: releaseOneRecordingFrame(*it)
SbrRelease ==
    /\ Alive /\ cp.pc = "release"
    /\ IF mCamera = "NULL"
       THEN /\ crashed' = "segv"
            /\ cp' = [cp EXCEPT !.pc = "crashed"]
            /\ UNCHANGED released
       ELSE /\ released' = releaseRecordingFrame(released, cp.buf)
            /\ cp' = [cp EXCEPT !.pc = "erase"]
            /\ UNCHANGED crashed
    /\ UNCHANGED <<mStarted, clockVars, counterVars,
                   mGlitchDurationThresholdUs, queueVars, mFramesBeingEncoded,
                   cameraVars, mLock, ctl, startTimeReq, cb, rd, cbLog,
                   delivered>>

\* line 267: mFramesBeingEncoded.erase(it)
SbrErase ==
    /\ Alive /\ cp.pc = "erase"
    /\ mFramesBeingEncoded' = EraseFirst(mFramesBeingEncoded, cp.buf)
    /\ cp' = [cp EXCEPT !.pc = "count"]
    /\ UNCHANGED <<mStarted, clockVars, counterVars,
                   mGlitchDurationThresholdUs, queueVars, cameraVars, mLock,
                   released, ctl, startTimeReq, cb, rd, cbLog, delivered,
                   crashed>>

\* line 268: ++mNumFramesEncoded
SbrCount ==
    /\ Alive /\ cp.pc = "count"
    /\ mNumFramesEncoded' = mNumFramesEncoded + 1
    /\ cp' = [cp EXCEPT !.pc = "signal"]
    /\ UNCHANGED <<mStarted, clockVars, mNumFramesReceived,
                   mNumFramesDropped, mNumGlitches,
                   mGlitchDurationThresholdUs, queueVars, mFramesBeingEncoded,
                   cameraVars, mLock, released, ctl, startTimeReq, cb, rd,
                   cbLog, delivered, crashed>>

\* lines 271-272: mFrameCompleteCondition.signal() and return
SbrSignal ==
    /\ Alive /\ cp.pc = "signal"
    /\ ctl' = SignalFrameComplete(ctl)
    /\ cp' = [cp EXCEPT !.pc = "idle"]
    /\ UNCHANGED <<mStarted, clockVars, counterVars,
                   mGlitchDurationThresholdUs, queueVars, mFramesBeingEncoded,
                   cameraVars, mLock, released, startTimeReq, cb, rd, cbLog,
                   delivered, crashed>>

\* ------------------------------------------------------ condition variables
\* Condition::wait may return without a signal (pthread_cond_wait); both
\* waits sit in a loop that tests again
SpuriousWakeup ==
    /\ Alive
    /\ \/ ctl = "stop_wait" /\ ctl' = "stop_woken" /\ UNCHANGED rd
       \/ rd.pc = "wait" /\ rd' = [rd EXCEPT !.pc = "woken"] /\ UNCHANGED ctl
    /\ UNCHANGED <<mStarted, clockVars, counterVars,
                   mGlitchDurationThresholdUs, queueVars, mFramesBeingEncoded,
                   cameraVars, mLock, released, startTimeReq, cb, cp, cbLog,
                   delivered, crashed>>

Next ==
    \/ \E t \in StartTimes : StartBegin(t)
    \/ \E ok \in BOOLEAN : StartCameraRecording(ok)
    \/ StartSetFlag
    \/ \E ts \in CaptureTimes, skip \in BOOLEAN : CbDispatch(ts, skip)
    \/ dataCallbackTimestamp
    \/ ReadSeek
    \/ read
    \/ StopBegin
    \/ StopCamera
    \/ StopReleaseQueued
    \/ StopTest
    \/ StopWait
    \/ StopWake
    \/ StopClearCamera
    \/ StopCheck
    \/ \E b \in Frames \cup {ForeignBuffer} : SbrFind(b)
    \/ SbrRelease
    \/ SbrErase
    \/ SbrCount
    \/ SbrSignal
    \/ SpuriousWakeup

Spec == Init /\ [][Next]_vars

\* The same program with frames a fifth of a second and more apart, the
\* spacing at which the glitch test on lines 327-328 can fire.
GlitchCaptureTimes == {0, 50000, 260000}

NextGlitch ==
    \/ \E t \in StartTimes : StartBegin(t)
    \/ \E ok \in BOOLEAN : StartCameraRecording(ok)
    \/ StartSetFlag
    \/ \E ts \in GlitchCaptureTimes, skip \in BOOLEAN : CbDispatch(ts, skip)
    \/ dataCallbackTimestamp
    \/ ReadSeek
    \/ read
    \/ StopBegin
    \/ StopCamera
    \/ StopReleaseQueued
    \/ StopTest
    \/ StopWait
    \/ StopWake
    \/ StopClearCamera
    \/ StopCheck
    \/ \E b \in Frames \cup {ForeignBuffer} : SbrFind(b)
    \/ SbrRelease
    \/ SbrErase
    \/ SbrCount
    \/ SbrSignal
    \/ SpuriousWakeup

GlitchSpec == Init /\ [][NextGlitch]_vars

\* Every thread that can take a step is scheduled in the end, and the
\* consumer returns every buffer it holds.  Nothing promises a spurious
\* wake-up, another frame or another read().
StopSteps ==
    \/ StopBegin \/ StopCamera \/ StopReleaseQueued \/ StopTest \/ StopWait
    \/ StopWake \/ StopClearCamera \/ StopCheck

CompletionSteps ==
    \/ \E b \in SeqToSet(mFramesBeingEncoded) : SbrFind(b)
    \/ SbrRelease \/ SbrErase \/ SbrCount \/ SbrSignal

FairSpec ==
    /\ Init /\ [][Next]_vars
    /\ WF_vars(StopSteps)
    /\ WF_vars(CompletionSteps)
    /\ WF_vars(dataCallbackTimestamp)
    /\ WF_vars(read)
\* ======================================================================
\* Properties
\* ======================================================================
QueuedIdx == {i \in 1..Len(cbLog) : cbLog[i].outcome = "queued"}
DeliveredFrame(i) == delivered[i].frame

\* frames in the order dataCallbackTimestamp queued them
RECURSIVE QueuedFrom(_)
QueuedFrom(i) ==
    IF i > Len(cbLog) THEN <<>>
    ELSE IF cbLog[i].outcome = "queued" THEN <<i>> \o QueuedFrom(i + 1)
    ELSE QueuedFrom(i + 1)
QueuedFrames == QueuedFrom(1)

\* C1: when stop() reaches CHECK_EQ on line 233,
\* mNumFramesReceived = mNumFramesEncoded + mNumFramesDropped.
StopCheckConsistent ==
    ctl = "stop_check" =>
        mNumFramesReceived = mNumFramesEncoded + mNumFramesDropped

\* C2: from the exit of stop()'s wait loop to its return and after it, the
\* in-flight list is empty and every frame read() handed out has been
\* released and erased by signalBufferReturned(); when stop() has returned
\* each of them has been counted as encoded as well.
StopReturnsDrained ==
    /\ ctl \in {"stop_clear", "stop_check", "done"} =>
           /\ mFramesBeingEncoded = <<>>
           /\ \A i \in 1..Len(delivered) : released[DeliveredFrame(i)] = 1
    /\ ctl = "done" => mNumFramesEncoded = Len(delivered)

\* stop() has returned while the completion of the last of several frames
\* is still on its way to signal()
StopReturnsDrainedWitness ==
    /\ ctl = "done"
    /\ cp.pc = "signal"
    /\ Len(delivered) >= 2

\* C3: once stop() has been called it returns in the end (or the process
\* has died on a CHECK), given that the consumer completes every frame it
\* was handed.
StopReturns ==
    (ctl = "stop_camera") ~> (ctl = "done" \/ ~Alive)

DeliveredInQueueOrder ==
    /\ Len(delivered) <= Len(QueuedFrames)
    /\ \A i \in 1..Len(delivered) : DeliveredFrame(i) = QueuedFrames[i]

\* two frames were read while a third one waits in the queue
DeliveredInQueueOrderWitness ==
    /\ Len(delivered) >= 2
    /\ mFramesReceived # <<>>

\* C6: a callback that runs while mStarted is false leaves the queue, the
\* in-flight list and the recording clock alone, releases its frame and adds
\* one to the received and to the dropped counter.
NotStartedFrameIsDropped ==
    [][(cb.pc = "dispatched" /\ cb'.pc # "dispatched" /\ ~mStarted) =>
          /\ UNCHANGED <<mFramesReceived, mFrameTimes, mFramesBeingEncoded,
                         clockVars>>
          /\ released' = [released EXCEPT ![cb.frame] = @ + 1]
          /\ mNumFramesDropped' = mNumFramesDropped + 1
          /\ mNumFramesReceived' = mNumFramesReceived + 1]_vars

\* C7: signalBufferReturned(b) with b in flight releases b once, erases
\* exactly the entry of b and adds one to the encoded counter; with b not in
\* flight it ends in the fatal CHECK and releases and counts nothing.
CompletionEffect ==
    [][/\ (cp.pc = "idle" /\ cp'.pc # "idle") =>
              /\ UNCHANGED <<released, counterVars, mFramesBeingEncoded>>
              /\ IF cp'.buf \in SeqToSet(mFramesBeingEncoded)
                 THEN cp'.pc = "release" /\ crashed' = "none"
                 ELSE crashed' = "abort"
       /\ (cp.pc = "release" /\ cp'.pc # "release") =>
              /\ released[cp.buf] = 0
              /\ released' = [released EXCEPT ![cp.buf] = 1]
              /\ UNCHANGED <<counterVars, mFramesBeingEncoded>>
       /\ (cp.pc = "erase" /\ cp'.pc # "erase") =>
              /\ Len(mFramesBeingEncoded') = Len(mFramesBeingEncoded) - 1
              /\ SeqToSet(mFramesBeingEncoded') =
                     SeqToSet(mFramesBeingEncoded) \ {cp.buf}
              /\ UNCHANGED <<released, counterVars>>
       /\ (cp.pc = "count" /\ cp'.pc # "count") =>
              /\ mNumFramesEncoded' = mNumFramesEncoded + 1
              /\ UNCHANGED <<released, mNumFramesReceived, mNumFramesDropped,
                             mFramesBeingEncoded>>
       /\ (cp.pc = "signal" /\ cp'.pc # "signal") =>
              /\ released[cp.buf] = 1
              /\ cp.buf \notin SeqToSet(mFramesBeingEncoded)
              /\ UNCHANGED <<released, counterVars, mFramesBeingEncoded>>
      ]_vars

\* a completion has erased the second of two frames in flight
CompletionEffectWitness ==
    /\ cp.pc = "signal"
    /\ cp.buf = 2
    /\ mFramesBeingEncoded = <<1>>
    /\ released[2] = 1

\* C8: with capture timestamps that never go back, the presentation
\* timestamps of the queued frames, and of the delivered ones, never go back.
PresentationTimesMonotonic ==
    /\ \A i, j \in QueuedIdx : i < j => cbLog[i].time <= cbLog[j].time
    /\ \A i, j \in 1..Len(delivered) :
           i < j => delivered[i].time <= delivered[j].time

\* a start time, a frame dropped before the flag was set, and two frames
\* delivered with different timestamps
PresentationTimesMonotonicWitness ==
    /\ startTimeReq > 0
    /\ Len(cbLog) = 3
    /\ cbLog[1].outcome = "notstarted"
    /\ Len(delivered) = 2
    /\ delivered[1].time < delivered[2].time

\* the scenario of C9: start time 100, frames at 80, 120 and 130, all
\* handled while started and none skipped by the hook
ScenarioStart100 ==
    /\ startTimeReq = 100
    /\ Len(cbLog) = 3
    /\ cbLog[1].ts = 80 /\ cbLog[2].ts = 120 /\ cbLog[3].ts = 130
    /\ \A i \in 1..3 : cbLog[i].outcome \notin {"notstarted", "skipped"}

\* C9 as claimed: the frame at 80 is dropped, the frame at 120 is queued
\* with presentation timestamp 0 and the frame at 130 with 10.
ScenarioStart100Claimed ==
    ScenarioStart100 =>
        /\ cbLog[1].outcome = "early"
        /\ cbLog[2].outcome = "queued" /\ cbLog[2].time = 0
        /\ cbLog[3].outcome = "queued" /\ cbLog[3].time = 10

\* C9 as amended: the frame at 80 is dropped, the frame at 120 is queued
\* with presentation timestamp 20 (its delay after the start time) and the
\* frame at 130 with 30.
ScenarioStart100Amended ==
    ScenarioStart100 =>
        /\ cbLog[1].outcome = "early" /\ released[1] = 1
        /\ cbLog[2].outcome = "queued" /\ cbLog[2].time = 20
        /\ cbLog[3].outcome = "queued" /\ cbLog[3].time = 30

ScenarioStart100Witness ==
    /\ ScenarioStart100
    /\ Len(delivered) = 2

\* C10: every queued frame has presentation timestamp
\* startOffset + (ts - firstFrameTimestamp), firstFrameTimestamp being the
\* capture timestamp of the first frame queued since start() and
\* startOffset that timestamp minus the requested start time (0 without one).
FirstQueuedTs == cbLog[CHOOSE i \in QueuedIdx : \A j \in QueuedIdx : i <= j].ts

PresentationTimeFromFirstFrame ==
    \A i \in QueuedIdx :
        cbLog[i].time =
            (IF startTimeReq > 0 THEN FirstQueuedTs - startTimeReq ELSE 0)
                + (cbLog[i].ts - FirstQueuedTs)
\* C11: with a start time T > 0, no queued frame and no delivered frame has
\* a capture timestamp below T.
NoFrameBeforeStartTime ==
    startTimeReq > 0 =>
        /\ \A i \in QueuedIdx : cbLog[i].ts >= startTimeReq
        /\ \A i \in 1..Len(delivered) :
               cbLog[DeliveredFrame(i)].ts >= startTimeReq

\* a callback has just run (the callback thread went from "dispatched" back
\* to "idle") while mStarted was true
CbRanStarted == cb.pc = "dispatched" /\ cb'.pc = "idle" /\ mStarted

\* the scenario of C12: no start time, the default threshold of 200 ms,
\* frames at 0, 50 and 260 ms, all handled while started, none skipped
ScenarioGlitch ==
    /\ startTimeReq = 0
    /\ mGlitchDurationThresholdUs = 200000
    /\ Len(cbLog) = 3
    /\ cbLog[1].ts = 0 /\ cbLog[2].ts = 50000 /\ cbLog[3].ts = 260000
    /\ \A i \in 1..3 : cbLog[i].outcome \notin {"notstarted", "skipped"}

\* C12: a callback that runs while started adds one to mNumGlitches if
\* mNumFramesReceived > 0 and timestampUs - mLastFrameTimestampUs exceeds
\* the threshold, and leaves it alone otherwise; a frame that is a glitch is
\* queued unless the hook skips it; and frames at 0, 50 and 260 ms with a
\* threshold of 200 ms give one glitch and three queued frames.
GlitchCounting ==
    /\ [][CbRanStarted =>
            LET glitch == /\ mNumFramesReceived > 0
                          /\ cb.ts - mLastFrameTimestampUs
                                 > mGlitchDurationThresholdUs
            IN  /\ mNumGlitches' = mNumGlitches + (IF glitch THEN 1 ELSE 0)
                /\ (glitch /\ ~cb.skip) =>
                       /\ mFramesReceived' = Append(mFramesReceived, cb.frame)
                       /\ released' = released]_vars
    /\ [](ScenarioGlitch =>
            /\ mNumGlitches = 1
            /\ \A i \in 1..3 : cbLog[i].outcome = "queued")

GlitchCountingWitness ==
    /\ ScenarioGlitch
    /\ mNumGlitches = 1
    /\ Len(delivered) = 3
\* C13: read() waits only while mStarted is true and the queue is empty; a
\* read() that is blocked when stop() has cleared mStarted returns
\* end-of-stream in the end, without a frame (unless the consumer itself
\* ended the process with a bogus completion); and a read() that runs while
\* mStarted is false returns end-of-stream at once.
BlockedReadEnds ==
    /\ [](rd.pc = "wait" => mStarted /\ mFramesReceived = <<>>)
    /\ [][(rd.pc \in {"idle", "woken"} /\ rd'.pc # rd.pc /\ ~mStarted) =>
             /\ rd' = [pc |-> "idle", result |-> "eos"]
             /\ delivered' = delivered]_vars
    /\ (rd.pc = "woken" /\ ~mStarted /\ ctl = "stop_camera")
           ~> (rd = [pc |-> "idle", result |-> "eos"] \/ cp.pc = "crashed")

\* C14: when the camera fails to start recording, start() does not end the
\* process: no step of start() standing at startCameraRecording() aborts.
\* (In that state only start() and a bogus completion can take a step that
\* changes the state.)
StartFailureDoesNotAbort ==
    [][(ctl = "start_rec" /\ cp' = cp) => crashed' = "none"]_vars

\* C15: the shared fields are touched only with mLock held, so while
\* stop() holds mLock no step of another thread changes any of them.
SharedStateChangesUnderLock ==
    [][(mLock = "stop" /\ ctl' = ctl) =>
          UNCHANGED <<mStarted, clockVars, counterVars, queueVars,
                      mFramesBeingEncoded>>]_vars
InPending(f) == f \in SeqToSet(mFramesReceived)
InFlightNow(f) == f \in SeqToSet(mFramesBeingEncoded)

\* C16: between critical sections no frame is both in the pending queue and
\* in the in-flight list (nor twice in either), and every frame that was
\* queued and has not been released is in exactly one of the two.
FrameInOneList ==
    /\ \A f \in Frames : ~(InPending(f) /\ InFlightNow(f))
    /\ Cardinality(SeqToSet(mFramesReceived)) = Len(mFramesReceived)
    /\ Cardinality(SeqToSet(mFramesBeingEncoded)) = Len(mFramesBeingEncoded)
    /\ \A f \in QueuedIdx :
           released[f] = 0 => (InPending(f) \/ InFlightNow(f))

\* one frame is pending, one is in flight and one has been completed
FrameInOneListWitness ==
    /\ Len(mFramesReceived) = 1
    /\ Len(mFramesBeingEncoded) = 1
    /\ Cardinality(QueuedIdx) = 3
    /\ mNumFramesEncoded = 1

\* C17: a callback for the first frame since start() whose timestamp is
\* below the requested start time releases the frame and leaves
\* mLastFrameTimestampUs, the received and dropped counters and the pending
\* queue as they were.
EarlyFrameLeavesClock ==
    [][(CbRanStarted /\ ~cb.skip /\ mNumFramesReceived = 0
            /\ mStartTimeUs > 0 /\ cb.ts < mStartTimeUs) =>
          /\ released' = [released EXCEPT ![cb.frame] = @ + 1]
          /\ UNCHANGED <<mLastFrameTimestampUs, mNumFramesReceived,
                         mNumFramesDropped, mFramesReceived>>]_vars

\* C18: mNumFramesReceived = mNumFramesEncoded + mNumFramesDropped
\* + |mFramesReceived| + |mFramesBeingEncoded| in every state, but for the
\* one frame a completion has erased and not yet counted (between lines 267
\* and 268); so the equation holds whenever no operation is mid-way.
FrameConservation ==
    mNumFramesReceived =
        mNumFramesEncoded + mNumFramesDropped
            + Len(mFramesReceived) + Len(mFramesBeingEncoded)
            + (IF cp.pc = "count" THEN 1 ELSE 0)

\* every outcome of the callback has happened, a frame has been completed
\* and stop() has dropped a queued one
FrameConservationWitness ==
    /\ ctl = "done"
    /\ {cbLog[i].outcome : i \in 1..Len(cbLog)} \in
           {{"notstarted", "queued", "skipped"}, {"early", "queued", "skipped"}}
    /\ mNumFramesReceived >= 1

\* stop() has begun: mStarted was cleared on line 212
StopHasBegun == ctl \notin {"idle", "start_rec", "start_flag", "running"}

\* C19: once stop() has cleared mStarted nothing is added to the pending
\* queue or to the in-flight list, and read() hands out no frame.
NothingAddedAfterStop ==
    [][StopHasBegun =>
          /\ Len(mFramesReceived') <= Len(mFramesReceived)
          /\ SeqToSet(mFramesBeingEncoded') \subseteq
                 SeqToSet(mFramesBeingEncoded)
          /\ Len(mFramesBeingEncoded') <= Len(mFramesBeingEncoded)
          /\ delivered' = delivered]_vars

\* while stop() waits for a frame in flight, a callback has run and was
\* dropped and a read() has returned end-of-stream
NothingAddedAfterStopWitness ==
    /\ ctl = "stop_wait"
    /\ mFramesBeingEncoded # <<>>
    /\ rd = [pc |-> "idle", result |-> "eos"]
    /\ Len(cbLog) >= 2
    /\ cbLog[Len(cbLog)].outcome = "notstarted"
    /\ cbLog[1].outcome = "queued"

\* C20: mFramesReceived and mFrameTimes have the same length in every
\* state, and read() pairs each frame with the timestamp computed for it.
FrameListsParallel ==
    /\ Len(mFramesReceived) = Len(mFrameTimes)
    /\ \A i \in 1..Len(delivered) :
           delivered[i].time = cbLog[DeliveredFrame(i)].time
====
